---- MODULE Spec2Model ----
(***************************************************************************)
(* Option chain demo (src/main.cpp): an OptionChain holding contracts and  *)
(* observers, the OptionFactory, the Call/Put payoff functions, the        *)
(* RealTimeDisplay observer, the TradeCommand and main's menu loop.        *)
(*                                                                         *)
(* A premium is a C++ double.  It is modelled as an exact decimal          *)
(* fraction premium / 100^scale: every drift multiplies by (100 + r)/100,  *)
(* so the numerator is multiplied by 100 + r and the scale grows by one.   *)
(* Rounding of the double is not modelled.                                 *)
(***************************************************************************)
EXTENDS Integers, Sequences, FiniteSets, TLC

VARIABLES options, observers, pc, lastOp, log, updateCalls, renderCount

vars == <<options, observers, pc, lastOp, log, updateCalls, renderCount>>

(* ------------------------------ bounds --------------------------------- *)
\* contracts a session may add by trades on top of main's two
MaxAdded == 1
\* contracts in a chain driven through its public interface
MaxOptions == 2
\* calls of updateOptionPrices in one behaviour
MaxRounds == 2
\* entries of the observer list
MaxObservers == 3

(* ------------------------------ inputs --------------------------------- *)
Tags == {"Call", "Put", "Straddle", "call", ""}
Strikes == {100, 0 - 20}
Premiums == {5, 4, 0, 0 - 4}
Expiries == {"2024-12-31", "2025-01-17"}
MarketPrices == {90, 110}
\* values returned by rand(): 0 .. RAND_MAX
RandValues == {0, 2147483639}
Displays == {"display", "display2"}

\* what the user types into TradeCommand::execute: type, strike, premium, expiry
TradeInputs ==
    { <<"Call", 100, 5, "2024-12-31">>,
      <<"Put", 100, 4, "2024-12-31">>,
      <<"Put", 0 - 20, 0 - 4, "2025-01-17">>,
      <<"Call", 100, 0, "2025-01-17">>,
      <<"Straddle", 100, 5, "2024-12-31">>,
      <<"call", 0 - 20, 0 - 4, "2025-01-17">> }

(* ------------------------------ helpers -------------------------------- *)
RECURSIVE Pow(_, _)
Pow(b, n) == IF n = 0 THEN 1 ELSE b * Pow(b, n - 1)

Max(a, b) == IF a >= b THEN a ELSE b

\* std::unique_ptr<Option> holding nothing
NULL == [kind |-> "null"]

\* what displaySingleQuote prints when the chain is empty: nothing
NoQuote == [kind |-> "none"]

NoOp == [op |-> "none", arg |-> <<>>, ret |-> NULL]

(* ------------------------------ Option --------------------------------- *)
Option(kind, strike, prem, expiry) ==
    [kind |-> kind, strikePrice |-> strike, premium |-> prem, scale |-> 0,
     expiryDate |-> expiry]

CallOption(strike, prem, expiry) == Option("Call", strike, prem, expiry)

PutOption(strike, prem, expiry) == Option("Put", strike, prem, expiry)

\* the text displayInfo writes: the variant's label and the three fields
displayInfo(o) ==
    [kind |-> IF o.kind = "Call" THEN "Call Option" ELSE "Put Option",
     strikePrice |-> o.strikePrice, premium |-> o.premium, scale |-> o.scale,
     expiryDate |-> o.expiryDate]

\* max(0.0, marketPrice - strikePrice) - premium, as a fraction num / 100^scale
CallOption_calculatePayoff(o, marketPrice) ==
    [num |-> Max(0, marketPrice - o.strikePrice) * Pow(100, o.scale) - o.premium,
     scale |-> o.scale]

\* the put paying like a call
PutOption_calculatePayoff_asCall(o, marketPrice) ==
    [num |-> Max(0, marketPrice - o.strikePrice) * Pow(100, o.scale) - o.premium,
     scale |-> o.scale]

PutOption_calculatePayoff(o, marketPrice) ==
    [num |-> Max(0, o.strikePrice - marketPrice) * Pow(100, o.scale) - o.premium,
     scale |-> o.scale]

\* virtual dispatch on the contract's dynamic type
calculatePayoff(o, marketPrice) ==
    IF o.kind = "Call" THEN CallOption_calculatePayoff(o, marketPrice)
    ELSE PutOption_calculatePayoff(o, marketPrice)

(* --------------------------- OptionFactory ----------------------------- *)
\* the factory comparing the tag without regard to case
createOption_ignoreCase(type, strike, prem, expiry) ==
    IF type \in {"Call", "call"} THEN CallOption(strike, prem, expiry)
    ELSE IF type \in {"Put", "put"} THEN PutOption(strike, prem, expiry)
    ELSE NULL

createOption(type, strike, prem, expiry) ==
    IF type = "Call" THEN CallOption(strike, prem, expiry)
    ELSE IF type = "Put" THEN PutOption(strike, prem, expiry)
    ELSE NULL

(* ---------------------------- OptionChain ------------------------------ *)
\* the new contract put in front
addOption_front(opts, option) == <<option>> \o opts

addOption(opts, option) == Append(opts, option)

registerObserver(obs, observer) == Append(obs, observer)

displaySingleQuote(opts) ==
    IF opts # <<>> THEN displayInfo(opts[1]) ELSE NoQuote

\* one entry of the call log: a setPremium on options[idx] with drift r, or
\* an update() of observer obs that rendered quote
PremiumEvent(i, r) ==
    [ev |-> "setPremium", idx |-> i, r |-> r, obs |-> "", quote |-> NoQuote]

UpdateEvent(observer, shown) ==
    [ev |-> "update", idx |-> 0, r |-> 0, obs |-> observer, quote |-> shown]

\* RealTimeDisplay::update: renders chain->displaySingleQuote()
RealTimeDisplay_update(observer, opts) ==
    UpdateEvent(observer, displaySingleQuote(opts))

\* the observers walked from the last registered to the first
RECURSIVE notifyObservers_reversed(_, _)
notifyObservers_reversed(obs, opts) ==
    IF obs = <<>> THEN <<>>
    ELSE notifyObservers_reversed(Tail(obs), opts)
         \o <<RealTimeDisplay_update(Head(obs), opts)>>

RECURSIVE notifyObservers(_, _)
notifyObservers(obs, opts) ==
    IF obs = <<>> THEN <<>>
    ELSE <<RealTimeDisplay_update(Head(obs), opts)>>
         \o notifyObservers(Tail(obs), opts)

\* the drift shifted by one: -4 .. 5
Drift_shifted(randValue) == (randValue % 10) - 4

\* rand() % 10 - 5
Drift(randValue) == (randValue % 10) - 5

\* the drift added to the premium instead of scaling it: premium + r
setPremium_additive(o, randValue) ==
    [o EXCEPT !.premium = (@ + Drift(randValue) * Pow(100, o.scale)) * 100,
              !.scale = @ + 1]

\* getPremium() * (1.0 + (rand() % 10 - 5) / 100.0), then setPremium
setPremium(o, randValue) ==
    [o EXCEPT !.premium = @ * (100 + Drift(randValue)), !.scale = @ + 1]

\* the range-for over options, from index i on; draws[i] is the rand() value
\* of iteration i
RECURSIVE UpdateLoop(_, _, _)
UpdateLoop(opts, draws, i) ==
    IF i > Len(opts) THEN [options |-> opts, log |-> <<>>]
    ELSE LET rest == UpdateLoop([opts EXCEPT ![i] = setPremium(opts[i], draws[i])],
                                draws, i + 1)
         IN  [options |-> rest.options,
              log |-> <<PremiumEvent(i, Drift(draws[i]))>> \o rest.log]

\* the observers notified only when some premium was changed
updateOptionPrices_quietWhenEmpty(opts, obs, draws) ==
    LET loop == UpdateLoop(opts, draws, 1)
    IN  [options |-> loop.options,
         log |-> IF opts = <<>> THEN loop.log
                 ELSE loop.log \o notifyObservers(obs, loop.options)]

\* the observers notified before the premiums are changed
updateOptionPrices_notifyFirst(opts, obs, draws) ==
    LET loop == UpdateLoop(opts, draws, 1)
    IN  [options |-> loop.options,
         log |-> notifyObservers(obs, opts) \o loop.log]

updateOptionPrices(opts, obs, draws) ==
    LET loop == UpdateLoop(opts, draws, 1)
    IN  [options |-> loop.options,
         log |-> loop.log \o notifyObservers(obs, loop.options)]

\* number of update() executions recorded in a call log
Renders(l) == Cardinality({i \in 1..Len(l) : l[i].ev = "update"})

HasNull(opts) == \E i \in 1..Len(opts) : opts[i] = NULL

(* ------------------------------- main ---------------------------------- *)
\* main lines 233-246: the chain with its two contracts and the display
MainOptions ==
    addOption(addOption(<<>>, createOption("Call", 100, 5, "2024-12-31")),
              createOption("Put", 100, 4, "2024-12-31"))

Init ==
    /\ options = MainOptions
    /\ observers = registerObserver(<<>>, "display")
    /\ pc = "menu"
    /\ lastOp = NoOp
    /\ log = <<>>
    /\ updateCalls = 0
    /\ renderCount = 0

\* the range-for of updateOptionPrices reaching a null entry: option-> on a
\* null pointer, the process dies
NullDereference(draws) ==
    /\ pc' = "crashed"
    /\ lastOp' = [op |-> "updateOptionPrices", arg |-> draws, ret |-> NULL]
    /\ UNCHANGED <<options, observers, log, updateCalls, renderCount>>

\* MarketSimulator::updateMarket: chain->updateOptionPrices()
UpdateMarket(draws) ==
    IF HasNull(options) THEN NullDereference(draws)
    ELSE LET res == updateOptionPrices(options, observers, draws)
         IN  /\ options' = res.options
             /\ log' = res.log
             /\ lastOp' = [op |-> "updateOptionPrices", arg |-> draws, ret |-> NULL]
             /\ updateCalls' = updateCalls + 1
             /\ renderCount' = renderCount + Renders(res.log)
             /\ UNCHANGED <<observers, pc>>

\* choice '1': simulator.updateMarket(); display.update();
GetUpdatedQuote ==
    /\ pc = "menu"
    /\ updateCalls < MaxRounds
    /\ \E draws \in [1..Len(options) -> RandValues] :
          IF HasNull(options) THEN NullDereference(draws)
          ELSE LET res == updateOptionPrices(options, observers, draws)
                   all == res.log \o <<RealTimeDisplay_update("display", res.options)>>
               IN  /\ options' = res.options
                   /\ log' = all
                   /\ lastOp' = [op |-> "updateOptionPrices", arg |-> draws,
                                 ret |-> NULL]
                   /\ updateCalls' = updateCalls + 1
                   /\ renderCount' = renderCount + Renders(all)
                   /\ UNCHANGED <<observers, pc>>

\* the trade added without the test of the factory's result
TradeCommand_execute_unchecked(in) ==
    LET option == createOption(in[1], in[2], in[3], in[4])
    IN  /\ options' = addOption(options, option)
        /\ lastOp' = [op |-> "execute", arg |-> in, ret |-> option]
        /\ log' = <<>>
        /\ UNCHANGED <<observers, pc, updateCalls, renderCount>>

\* TradeCommand::execute with the values read from std::cin
TradeCommand_execute(in) ==
    LET option == createOption(in[1], in[2], in[3], in[4])
    IN  /\ IF option # NULL
           THEN options' = addOption(options, option)
           ELSE options' = options
        /\ lastOp' = [op |-> "execute", arg |-> in, ret |-> option]
        /\ log' = <<>>
        /\ UNCHANGED <<observers, pc, updateCalls, renderCount>>

\* a trade the bound on the chain's length still admits
Admitted(in, maxLen) ==
    createOption(in[1], in[2], in[3], in[4]) # NULL => Len(options) < maxLen

\* choice '2': tradeCommand.execute()
EnterTrade ==
    /\ pc = "menu"
    /\ \E in \in TradeInputs :
          /\ Admitted(in, Len(MainOptions) + MaxAdded)
          /\ TradeCommand_execute(in)

\* choice '3': the loop ends, main returns 0
Exit ==
    /\ pc = "menu"
    /\ pc' = "exited"
    /\ lastOp' = [op |-> "exit", arg |-> <<>>, ret |-> NULL]
    /\ log' = <<>>
    /\ UNCHANGED <<options, observers, updateCalls, renderCount>>

Next == GetUpdatedQuote \/ EnterTrade \/ Exit

Spec == Init /\ [][Next]_vars

(* ------------------- the chain's public interface ---------------------- *)
\* an OptionChain right after its construction, driven by any client
InitChain ==
    /\ options = <<>>
    /\ observers = <<>>
    /\ pc = "api"
    /\ lastOp = NoOp
    /\ log = <<>>
    /\ updateCalls = 0
    /\ renderCount = 0

Registrations(obs, d) == Cardinality({i \in 1..Len(obs) : obs[i] = d})

\* RealTimeDisplay::RealTimeDisplay: chain->registerObserver(this)
ConstructDisplay(displays) ==
    /\ pc = "api"
    /\ Len(observers) < MaxObservers
    /\ \E d \in displays :
          /\ Registrations(observers, d) = 0
          /\ observers' = registerObserver(observers, d)
          /\ lastOp' = [op |-> "RealTimeDisplay", arg |-> <<d>>, ret |-> NULL]
    /\ log' = <<>>
    /\ UNCHANGED <<options, pc, updateCalls, renderCount>>

\* OptionChain::registerObserver called again with a display already listed
RegisterAgain ==
    /\ pc = "api"
    /\ Len(observers) < MaxObservers
    /\ \E d \in Displays :
          /\ Registrations(observers, d) > 0
          /\ observers' = registerObserver(observers, d)
          /\ lastOp' = [op |-> "registerObserver", arg |-> <<d>>, ret |-> NULL]
    /\ log' = <<>>
    /\ UNCHANGED <<options, pc, updateCalls, renderCount>>

\* TradeCommand::execute on the chain
ExecuteTrade(inputs) ==
    /\ pc = "api"
    /\ \E in \in inputs :
          /\ Admitted(in, MaxOptions)
          /\ TradeCommand_execute(in)

\* MarketSimulator::updateMarket on the chain
SimulateMarket ==
    /\ pc = "api"
    /\ updateCalls < MaxRounds
    /\ \E draws \in [1..Len(options) -> RandValues] :
          UpdateMarket(draws)

\* getOptions()[i]->calculatePayoff(marketPrice)
CalculatePayoff ==
    /\ pc = "api"
    /\ \E i \in 1..Len(options), marketPrice \in MarketPrices :
          lastOp' = [op |-> "calculatePayoff", arg |-> <<i, marketPrice>>,
                     ret |-> calculatePayoff(options[i], marketPrice)]
    /\ log' = <<>>
    /\ UNCHANGED <<options, observers, pc, updateCalls, renderCount>>

\* contracts, their premiums and payoffs, with one display on the chain
NextChain ==
    \/ ConstructDisplay({"display"})
    \/ ExecuteTrade(TradeInputs)
    \/ SimulateMarket
    \/ CalculatePayoff

ChainSpec == InitChain /\ [][NextChain]_vars

\* the trades of the observer list's clients: one accepted, one rejected
ObserverTrades ==
    { <<"Call", 100, 5, "2024-12-31">>, <<"Straddle", 100, 5, "2024-12-31">> }

\* the observer list: several displays, some registered more than once
NextObservers ==
    \/ ConstructDisplay(Displays)
    \/ RegisterAgain
    \/ ExecuteTrade(ObserverTrades)
    \/ SimulateMarket

ObserverSpec == InitChain /\ [][NextObservers]_vars

(* ------------------------- the factory alone --------------------------- *)
\* the four arguments of a call of OptionFactory::createOption
InitFactory ==
    /\ options = <<>>
    /\ observers = <<>>
    /\ pc = "factory"
    /\ \E type \in Tags, strike \in Strikes, prem \in Premiums, expiry \in Expiries :
          lastOp = [op |-> "arguments", arg |-> <<type, strike, prem, expiry>>,
                    ret |-> NULL]
    /\ log = <<>>
    /\ updateCalls = 0
    /\ renderCount = 0

CreateOption ==
    /\ pc = "factory"
    /\ lastOp.op = "arguments"
    /\ lastOp' = [op |-> "createOption", arg |-> lastOp.arg,
                  ret |-> createOption(lastOp.arg[1], lastOp.arg[2],
                                       lastOp.arg[3], lastOp.arg[4])]
    /\ UNCHANGED <<options, observers, pc, log, updateCalls, renderCount>>

FactorySpec == InitFactory /\ [][CreateOption]_vars

(* ---------------------------- properties ------------------------------- *)
IsUpdate(e) == e.ev = "update"

IsSetPremium(e) == e.ev = "setPremium"

UpdateEvents(l) == SelectSeq(l, IsUpdate)

PremiumEvents(l) == SelectSeq(l, IsSetPremium)

\* the observers of a call log's update() executions, in the order they ran
Notified(l) == [k \in 1..Len(UpdateEvents(l)) |-> UpdateEvents(l)[k].obs]

\* what identifies a contract besides its premium
Identity(o) == <<o.kind, o.strikePrice, o.expiryDate>>

AfterUpdate == lastOp.op = "updateOptionPrices" /\ pc # "crashed"

\* C1: every completed call of updateOptionPrices runs the update() of a
\* display registered (once, by its constructor) on the chain exactly one
\* time, whatever the number of contracts and whatever came before.
C1_DisplayUpdatedOncePerCall ==
    AfterUpdate =>
        \A d \in Displays :
            Registrations(observers, d) = 1 => Registrations(Notified(log), d) = 1

\* a call on a chain with no contract, one display registered once beside
\* another one, after an earlier call
C1_Witness ==
    /\ AfterUpdate
    /\ options = <<>>
    /\ updateCalls = 2
    /\ Len(observers) = 2
    /\ Registrations(observers, "display") = 1
    /\ Registrations(Notified(log), "display") = 1

\* C2 (as stated): after every call each new premium lies in
\* [0.95 * old, 1.04 * old], negative premiums included.
C2_Original ==
    [][updateCalls' = updateCalls + 1 =>
          \A i \in 1..Len(options) :
              /\ 95 * options[i].premium <= options'[i].premium
              /\ options'[i].premium <= 104 * options[i].premium]_vars

\* C2 (amended): each new premium is old * (1 + r/100) for an integer r in
\* -5 .. 4; it lies in [0.95 * old, 1.04 * old] when old >= 0 and in
\* [1.04 * old, 0.95 * old] when old <= 0.
C2_DriftWithinFactor ==
    [][updateCalls' = updateCalls + 1 =>
          \A i \in 1..Len(options) :
              LET old == options[i].premium
                  new == options'[i].premium
              IN  /\ options'[i].scale = options[i].scale + 1
                  /\ \E r \in (0 - 5)..4 : new = old * (100 + r)
                  /\ old >= 0 => (95 * old <= new /\ new <= 104 * old)
                  /\ old <= 0 => (104 * old <= new /\ new <= 95 * old)]_vars

\* a call that has drifted a negative and a positive premium
C2_Witness ==
    /\ AfterUpdate
    /\ \E i, j \in 1..Len(options) :
          /\ options[i].premium < 0 /\ options[i].scale > 0
          /\ options[j].premium > 0 /\ options[j].scale > 0

\* C3: createOption returns a Call for the tag "Call", a Put for the tag
\* "Put" and nothing for any other tag; the contract carries the strike,
\* premium and expiry passed in, and the numbers do not decide the result.
C3_FactoryByTag ==
    lastOp.op = "createOption" =>
        LET a == lastOp.arg
            made == lastOp.ret
        IN  /\ a[1] \in {"Call", "Put"} =>
                  /\ made.kind = a[1]
                  /\ made.strikePrice = a[2]
                  /\ made.premium = a[3] /\ made.scale = 0
                  /\ made.expiryDate = a[4]
            /\ a[1] \notin {"Call", "Put"} => made = NULL

\* the tag "call" with a negative strike and premium: nothing is made
C3_Witness ==
    /\ lastOp.op = "createOption"
    /\ lastOp.arg[1] = "call" /\ lastOp.arg[2] < 0 /\ lastOp.arg[3] < 0
    /\ lastOp.ret = NULL

\* C4: a trade whose tag is neither "Call" nor "Put" leaves the contracts
\* and the observer list as they were, and the chain never holds a null
\* entry, in main's initial adds and in every TradeCommand::execute.
C4_RejectedTradeIsNoOp ==
    [][/\ ~HasNull(options) /\ ~HasNull(options')
       /\ (lastOp'.op = "execute" /\ lastOp'.arg[1] \notin {"Call", "Put"}) =>
              (options' = options /\ observers' = observers)]_vars

\* a rejected trade after an accepted one
C4_Witness ==
    /\ lastOp.op = "execute"
    /\ lastOp.arg[1] = "Straddle"
    /\ lastOp.ret = NULL
    /\ Len(options) = Len(MainOptions) + 1
    /\ ~HasNull(options)

\* C5: calculatePayoff(M) is max(0, M - K) - P for a Call and
\* max(0, K - M) - P for a Put, P being the contract's current premium; a
\* Put with strike 100 and premium 4 pays 6 at 90; nothing is changed.
C5_Payoff ==
    [][lastOp'.op = "calculatePayoff" =>
          LET o == options[lastOp'.arg[1]]
              M == lastOp'.arg[2]
              K == o.strikePrice
              intrinsic == IF o.kind = "Call" THEN Max(0, M - K) ELSE Max(0, K - M)
              paid == lastOp'.ret
          IN  /\ paid.scale = o.scale
              /\ paid.num = intrinsic * Pow(100, o.scale) - o.premium
              /\ (o.kind = "Put" /\ K = 100 /\ o.premium = 4 /\ o.scale = 0 /\ M = 90)
                    => paid.num = 6
              /\ options' = options
              /\ observers' = observers]_vars

\* the payoff of a Put in the money whose premium has drifted
C5_Witness ==
    /\ lastOp.op = "calculatePayoff"
    /\ LET o == options[lastOp.arg[1]]
       IN  /\ o.kind = "Put" /\ o.strikePrice = 100 /\ lastOp.arg[2] = 90
           /\ o.scale > 0
           /\ lastOp.ret.num = 10 * Pow(100, o.scale) - o.premium

\* C6: the chain keeps its contracts in the order they were added and never
\* drops one: a step leaves every contract at its place, an add appends at
\* the end, the first contract stays the first, and the quote a display
\* renders is the first contract, or nothing when the chain is empty.
C6_InsertionOrder ==
    [][/\ Len(options') >= Len(options)
       /\ \A i \in 1..Len(options) : Identity(options'[i]) = Identity(options[i])
       /\ Len(options') > Len(options) =>
              /\ Len(options') = Len(options) + 1
              /\ options'[Len(options')] = lastOp'.ret
       /\ \A k \in 1..Len(UpdateEvents(log')) :
              LET shown == UpdateEvents(log')[k].quote
              IN  IF options' = <<>> THEN shown = NoQuote
                  ELSE /\ shown.kind = (IF options'[1].kind = "Call"
                                        THEN "Call Option" ELSE "Put Option")
                       /\ shown.strikePrice = options'[1].strikePrice
                       /\ shown.expiryDate = options'[1].expiryDate
                       /\ shown.premium = options'[1].premium
                       /\ shown.scale = options'[1].scale]_vars

\* A then B added, B after a first update: the display renders A
C6_Witness ==
    /\ AfterUpdate
    /\ Len(options) = 2
    /\ Identity(options[1]) # Identity(options[2])
    /\ options[1].scale = 2 /\ options[2].scale = 1
    /\ Len(UpdateEvents(log)) = 1
    /\ UpdateEvents(log)[1].quote.strikePrice = options[1].strikePrice
    /\ UpdateEvents(log)[1].quote.expiryDate = options[1].expiryDate

\* C7: a call of updateOptionPrices has run, when it returns, one update()
\* per entry of the observer list, in the order of the list: an observer
\* registered before another is updated before it, one listed N times N times.
C7_NotifiedInRegistrationOrder ==
    AfterUpdate => Notified(log) = observers

\* two displays, the second one registered first and then once more
C7_Witness ==
    /\ AfterUpdate
    /\ observers = <<"display2", "display", "display2">>
    /\ Notified(log) = <<"display2", "display", "display2">>

\* C8 (as stated): the drift takes the premium of main's Call(100, 5) below
\* zero.  The path on which every draw is the lowest one, -5, lies below
\* every other path, so the claim needs it of that path at the end of the run.
C8_Original ==
    (/\ options[1].scale = MaxRounds
     /\ options[1].premium = 5 * Pow(95, MaxRounds))
        => options[1].premium < 0

\* C8 (amended): the drift never takes a premium across zero: a positive
\* premium stays positive through every step, and main's Call(100, 5) has a
\* positive premium in every state.
C8_PositivePremiumStaysPositive ==
    [][/\ options[1].premium > 0 /\ options'[1].premium > 0
       /\ \A i \in 1..Len(options) :
              options[i].premium > 0 => options'[i].premium > 0]_vars

\* main's Call(100, 5) after the lowest draw in every round of the run
C8_Witness ==
    /\ options[1].kind = "Call"
    /\ options[1].scale = 2
    /\ options[1].premium = 5 * 95 * 95
    /\ options[1].premium > 0

\* C9: updateOptionPrices changes premiums only: the contracts keep their
\* number, order, variant, strike and expiry and the observer list is kept;
\* every contract gets one setPremium, and all of them come before the first
\* update(), which renders the premium the call has set.
C9_UpdateChangesOnlyPremiums ==
    [][updateCalls' = updateCalls + 1 =>
          /\ Len(options') = Len(options)
          /\ observers' = observers
          /\ \A i \in 1..Len(options) :
                 /\ Identity(options'[i]) = Identity(options[i])
                 /\ options'[i].scale = options[i].scale + 1
          /\ [k \in 1..Len(PremiumEvents(log')) |-> PremiumEvents(log')[k].idx]
                 = [k \in 1..Len(options) |-> k]
          /\ \A i, j \in 1..Len(log') :
                 (IsUpdate(log'[i]) /\ IsSetPremium(log'[j])) => j < i
          /\ \A k \in 1..Len(UpdateEvents(log')) :
                 options' # <<>> =>
                     /\ UpdateEvents(log')[k].quote.premium = options'[1].premium
                     /\ UpdateEvents(log')[k].quote.scale = options'[1].scale]_vars

\* a call on two contracts with the display registered: both drifted, the
\* display shown the new premium of the first
C9_Witness ==
    /\ AfterUpdate
    /\ Len(options) = 2
    /\ observers = <<"display">>
    /\ Len(PremiumEvents(log)) = 2
    /\ Len(UpdateEvents(log)) = 1
    /\ options[1].premium # 0
    /\ UpdateEvents(log)[1].quote.premium = options[1].premium

\* C10 (as stated): in main's menu loop the display has rendered as many
\* times as updateOptionPrices has completed.
C10_RendersEqualUpdates == renderCount = updateCalls

====
